---- MODULE Spec2Model ----
(***************************************************************************)
(* Hotspot delineation (Code/Hotspots_delineation.py and its near-copy     *)
(* Code/Hotspot_delineation.py): a richness raster is reclassified at a    *)
(* series of thresholds around a percentile seed, small 8-connected        *)
(* regions are removed, and the threshold whose remaining coverage is      *)
(* closest to a target is kept and saved.                                  *)
(*                                                                         *)
(* Three specifications share the definitions below:                       *)
(*   Spec        one run of the script's main workflow;                    *)
(*   SpecRaster  the raster functions of one candidate (Reclassify, then   *)
(*               eliminate_isolated_pixels) applied stage by stage to      *)
(*               inputs drawn from bounded sets;                           *)
(*   SpecRichness  the upstream script Code/Compute_species_richness_maps.py *)
(*               that sums the species layers in batches on a pool of      *)
(*               worker processes and then sums the batch rasters.         *)
(*                                                                         *)
(* Numbers: a coverage is a float in the script; here it is the exact      *)
(* fraction [num, den], compared by cross-multiplication (float rounding   *)
(* is not modelled).  float('inf') is the fraction 1/0.                    *)
(***************************************************************************)
EXTENDS Integers, Sequences, FiniteSets, TLC

VARIABLES
    \* ---- state of one run of the script (Spec) ----
    pc,                  \* position in the main workflow
    richness_raster,     \* arcpy.Raster(richness_raster_path)
    target_coverage,     \* user input, percent
    max_iterations,      \* search radius
    total_valid_pixels,  \* COUNT of the zonal table of the richness raster
    initial_threshold,   \* int(percentile)
    threshold_range,     \* list of candidate thresholds
    i,                   \* generation loop variable
    position,            \* how many entries of threshold_range the for loop consumed
    threshold,           \* search loop variable
    attempted,           \* history: the values the search loop bound to threshold
    closest_coverage,
    closest_threshold,
    threshold_results,   \* list of (threshold, coverage, cleaned_raster)
    log,                 \* records written through logging
    output_hotspot,      \* the file output_hotspot_filename in the workspace
    save_calls,          \* history: the rasters handed to save_final_raster
    \* ---- state of the stage-by-stage application (SpecRaster) ----
    fn_pc,               \* "input" | "reclassified" | "cleaned"
    fn_pass,             \* 1 = first application, 2 = applied again to its own output
    fn_raster,           \* the raster handed to Reclassify
    fn_threshold,        \* lower end of the remap range
    fn_max_value,        \* upper end of the remap range
    reclassified_raster,
    cleaned_raster,
    \* ---- state of Compute_species_richness_maps.py (SpecRichness) ----
    sr_pc,               \* position in the main block
    runs,                \* how many times the script was started
    input_folder,        \* the species layers, in the order os.listdir returns them
    species_tifs,        \* list of the layers' file names
    batches,             \* list of lists of file names
    task,                \* state of each task handed to pool.starmap
    temp_folder,         \* the files of temp_folder: file name -> content
    written,             \* history: the .tif files this run's tasks saved
    temp_output_files,   \* the .tif files listed in temp_folder
    final_species_richness

run_vars == <<pc, richness_raster, target_coverage, max_iterations,
              total_valid_pixels, initial_threshold, threshold_range, i, position,
              threshold, attempted, closest_coverage, closest_threshold,
              threshold_results, log, output_hotspot, save_calls>>

fn_vars == <<fn_pc, fn_pass, fn_raster, fn_threshold, fn_max_value,
             reclassified_raster, cleaned_raster>>

sr_vars == <<sr_pc, runs, input_folder, species_tifs, batches, task, temp_folder,
             written, temp_output_files, final_species_richness>>

vars == <<run_vars, fn_vars, sr_vars>>

----------------------------------------------------------------------------
(* Bounds of the model.                                                    *)

\* Largest cell value of the rasters handed to the raster functions in SpecRaster.
MaxRichness == 2

\* Largest search radius drawn for max_iterations (the script sets 5).
MaxIterations == 2

\* Region size below which a region is removed (the script's "Count < 1000",
\* scaled to the model's extent).
MinComponentSize == 2

\* Largest number of species layers in input_folder.
MaxSpecies == 5

\* Largest number of times Compute_species_richness_maps.py is started on the
\* same temp_folder.
MaxRuns == 2

\* The extent of every raster: 2 rows by 3 columns.
Cells == (1..2) \X (1..3)

----------------------------------------------------------------------------
(* Values.                                                                 *)

NoData == -9999

None == <<>>

Some(x) == <<x>>

Abs(x) == IF x < 0 THEN -x ELSE x

Rat(n, d) == [num |-> n, den |-> d]

Inf == Rat(1, 0)

\* a < b for fractions with non-negative numerator and denominator
RatLess(a, b) == a.num * b.den < b.num * a.den

\* abs(a - b); abs(inf - b) is inf
AbsDiff(a, b) ==
    IF a.den = 0 THEN Inf
    ELSE Rat(Abs(a.num * b.den - b.num * a.den), a.den * b.den)

\* The rasters SpecRaster draws its input from.
Rasters == [Cells -> {NoData} \cup (1..MaxRichness)]

ValidCells(raster) == {c \in Cells : raster[c] # NoData}

----------------------------------------------------------------------------
(* The raster functions (arcpy.sa calls, by what they compute).            *)

\* arcpy.sa.Reclassify(raster, "Value", RemapRange([[from, to, new]]), "NODATA"):
\* a cell whose value lies in the range, both ends included, becomes new;
\* every other cell, NoData cells included, becomes NoData.
ReclassifyExclusiveFrom(raster, from, to, new) ==
    [c \in Cells |->
        IF raster[c] # NoData /\ from < raster[c] /\ raster[c] <= to
        THEN new ELSE NoData]

Reclassify(raster, from, to, new) ==
    [c \in Cells |->
        IF raster[c] # NoData /\ from <= raster[c] /\ raster[c] <= to
        THEN new ELSE NoData]

\* Neighbourhood of the mutant "FOUR": cells sharing an edge only.
FourNeighbors(c) ==
    {d \in Cells \ {c} : Abs(d[1] - c[1]) + Abs(d[2] - c[2]) = 1}

\* "EIGHT": the cells sharing an edge or a corner with c.
Neighbors(c) ==
    {d \in Cells \ {c} : Abs(d[1] - c[1]) <= 1 /\ Abs(d[2] - c[2]) <= 1}

\* "WITHIN": a region grows through neighbours carrying the same value.
RECURSIVE Grow(_, _)
Grow(raster, S) ==
    LET T == S \cup {d \in Cells : \E c \in S : d \in Neighbors(c) /\ raster[d] = raster[c]}
    IN  IF T = S THEN S ELSE Grow(raster, T)

Region(raster, c) == Grow(raster, {c})

\* Row-major scan position of a cell.
ScanIndex(c) == (c[1] - 1) * 3 + c[2]

FirstCell(S) == CHOOSE c \in S : \A d \in S : ScanIndex(c) <= ScanIndex(d)

\* arcpy.sa.RegionGroup(raster, "EIGHT", "WITHIN", "ADD_LINK"): a raster whose
\* valid cells carry the number of their region (regions numbered in scan
\* order), NoData staying NoData, with an attribute table giving each region's
\* Count (its number of cells) and Link (the value of its cells).
RegionGroup(raster) ==
    LET firsts == {FirstCell(Region(raster, c)) : c \in ValidCells(raster)}
        Number(f) == Cardinality({g \in firsts : ScanIndex(g) <= ScanIndex(f)})
    IN  [cells |-> [c \in Cells |->
                      IF raster[c] = NoData THEN NoData
                      ELSE Number(FirstCell(Region(raster, c)))],
         table |-> [n \in 1..Cardinality(firsts) |->
                      LET f == CHOOSE g \in firsts : Number(g) = n
                      IN  [Count |-> Cardinality(Region(raster, f)),
                           Link  |-> raster[f]]]]

\* The where clause "Count < 1000" (scaled: MinComponentSize), as the field it
\* reads and the limit it compares with.
CountBelowMinimum == [field |-> "Count", below |-> MinComponentSize]

\* Mutant: the where clause read the other way, the regions that reach the
\* limit are the ones set to NoData.
SetNullWhereNot(conditional_raster, false_raster, where_clause) ==
    [c \in Cells |->
        IF conditional_raster.cells[c] = NoData THEN NoData
        ELSE IF conditional_raster.table[conditional_raster.cells[c]][where_clause.field]
                   >= where_clause.below THEN NoData
        ELSE false_raster[c]]

\* arcpy.sa.SetNull(in_conditional_raster, in_false_raster, where_clause): NoData
\* where the conditional raster has no data or its row satisfies the clause,
\* else the cell of the false raster.
SetNull(conditional_raster, false_raster, where_clause) ==
    [c \in Cells |->
        IF conditional_raster.cells[c] = NoData THEN NoData
        ELSE IF conditional_raster.table[conditional_raster.cells[c]][where_clause.field]
                   < where_clause.below THEN NoData
        ELSE false_raster[c]]

\* Mutant: the region raster handed to SetNull as the false raster as well, so
\* the kept cells carry their region number.
eliminate_keeping_region_values(raster) ==
    LET region_group_raster == RegionGroup(raster)
    IN  SetNull(region_group_raster, region_group_raster.cells, CountBelowMinimum)

eliminate_isolated_pixels(raster) ==
    LET region_group_raster == RegionGroup(raster)
        set_null_raster == SetNull(region_group_raster, raster, CountBelowMinimum)
    IN  set_null_raster

\* eliminate_isolated_pixels on every raster Reclassify can return, evaluated
\* once: the actions look the cleaned raster up here.
Eliminated ==
    [raster \in [Cells -> {NoData, 1}] |-> eliminate_isolated_pixels(raster)] @@ <<>>

\* arcpy.sa.Con(arcpy.sa.IsNull(raster) == 0, valid_value)
create_valid_pixel_mask(raster) ==
    [c \in Cells |-> IF raster[c] # NoData THEN 1 ELSE NoData]

\* arcpy.sa.ZonalStatisticsAsTable(mask, "VALUE", raster, table, "DATA", "ALL"):
\* one row per zone (value of the mask) that holds a valid cell of the raster,
\* COUNT = the number of valid cells of the raster in the zone.
ZonalStatisticsAsTable(mask, raster) ==
    LET zones == {mask[c] : c \in ValidCells(mask) \cap ValidCells(raster)}
    IN  [z \in zones |->
            [COUNT |-> Cardinality({c \in ValidCells(raster) : mask[c] = z})]]

RECURSIVE SumCount(_, _)
SumCount(table, zones) ==
    IF zones = {} THEN 0
    ELSE LET z == CHOOSE z \in zones : TRUE
         IN  table[z].COUNT + SumCount(table, zones \ {z})

\* Mutant: the denominator taken from the mask of the filtered raster.
calculate_coverage_over_mask(cleaned, total, mask) ==
    LET zone_table == ZonalStatisticsAsTable(mask, cleaned)
        high_richness_pixels == SumCount(zone_table, DOMAIN zone_table)
        mask_pixels == Cardinality(ValidCells(mask))
    IN  IF mask_pixels > 0 THEN Rat(high_richness_pixels * 100, mask_pixels) ELSE Rat(0, 1)

\* (high_richness_pixels / float(total_valid_pixels)) * 100 if total_valid_pixels > 0 else 0
calculate_coverage(cleaned, total, mask) ==
    LET zone_table == ZonalStatisticsAsTable(mask, cleaned)
        high_richness_pixels == SumCount(zone_table, DOMAIN zone_table)
    IN  IF total > 0 THEN Rat(high_richness_pixels * 100, total) ELSE Rat(0, 1)

----------------------------------------------------------------------------
(* Spec: one run of the main workflow.                                     *)

\* target_coverage: 5 is the script's setting; 50 lies inside the coverages a
\* small raster can have.
TargetCoverages == {Rat(5, 1), Rat(50, 1)}

\* highest_species_richness_value, "set according to raster stats": the largest
\* value of the richness raster (193 in the script, 2 for the model's rasters).
highest_species_richness_value == 2

\* The richness rasters a run can load: every cell NoData or a richness up to
\* highest_species_richness_value.
RichnessRasters == [Cells -> {NoData} \cup (1..highest_species_richness_value)]

\* acceptable_range = 0.5 (assigned, never read by the script)
acceptable_range == Rat(1, 2)

Info(msg) == [level |-> "INFO", msg |-> msg]

Error(msg) == [level |-> "ERROR", msg |-> msg]

\* The steps of one candidate's evaluation that can raise.
CandidateSteps ==
    {"Reclassify", "eliminate_isolated_pixels", "create_valid_pixel_mask", "calculate_coverage"}

\* Compute_species_richness_maps.py is not running.
RichnessIdle ==
    /\ sr_pc = "idle"
    /\ runs = 0
    /\ input_folder = <<>>
    /\ species_tifs = <<>>
    /\ batches = <<>>
    /\ task = <<>>
    /\ temp_folder = <<>>
    /\ written = {}
    /\ temp_output_files = {}
    /\ final_species_richness = None

FnIdle ==
    /\ fn_pc = "idle"
    /\ fn_pass = 0
    /\ fn_raster = None
    /\ fn_threshold = 0
    /\ fn_max_value = 0
    /\ reclassified_raster = None
    /\ cleaned_raster = None

Init ==
    /\ FnIdle
    /\ RichnessIdle
    /\ pc = "load"
    /\ richness_raster \in RichnessRasters
    /\ target_coverage \in TargetCoverages
    /\ max_iterations \in 0..MaxIterations
    /\ total_valid_pixels = 0
    /\ initial_threshold = None
    /\ threshold_range = <<>>
    /\ i = 0
    /\ position = 0
    /\ threshold = None
    /\ attempted = <<>>
    /\ closest_coverage = None
    /\ closest_threshold = None
    /\ threshold_results = <<>>
    /\ log = <<>>
    /\ output_hotspot = None
    /\ save_calls = <<>>

\* The percentile of the valid cells is one of their values (the percentile
\* asked for is a user input); its int() seeds the search.
PercentileValues(raster, mask) ==
    {raster[c] : c \in ValidCells(mask) \cap ValidCells(raster)}

\* Lines 128-144: load the raster, write its mask, read the zonal table's
\* percentile and COUNT, start threshold_range with the initial threshold.
LoadRaster ==
    /\ pc = "load"
    /\ LET mask  == create_valid_pixel_mask(richness_raster)
           table == ZonalStatisticsAsTable(mask, richness_raster)
       IN  /\ DOMAIN table # {}
           /\ total_valid_pixels' = table[1].COUNT
           /\ \E p \in PercentileValues(richness_raster, mask) :
                 /\ initial_threshold' = Some(p)
                 /\ threshold_range' = <<p>>
    /\ i' = 1
    /\ log' = log \o <<Info("Total valid pixels calculated"), Info("Initial threshold set")>>
    /\ pc' = "generate"
    /\ UNCHANGED <<richness_raster, target_coverage, max_iterations, position, threshold,
                   attempted, closest_coverage, closest_threshold, threshold_results,
                   output_hotspot, save_calls>>
    /\ UNCHANGED <<fn_vars, sr_vars>>

\* Line 85: no valid cell, the zonal table has no row and next(cursor) raises
\* outside any try: the script ends before the search.
LoadFails ==
    /\ pc = "load"
    /\ LET mask  == create_valid_pixel_mask(richness_raster)
           table == ZonalStatisticsAsTable(mask, richness_raster)
       IN  DOMAIN table = {}
    /\ pc' = "aborted"
    /\ UNCHANGED <<richness_raster, target_coverage, max_iterations, total_valid_pixels,
                   initial_threshold, threshold_range, i, position, threshold, attempted,
                   closest_coverage, closest_threshold, threshold_results, log,
                   output_hotspot, save_calls>>
    /\ UNCHANGED <<fn_vars, sr_vars>>

\* Mutant: the pair appended below first.
PairBelowFirst(t0, n) == <<t0 - n, t0 + n>>

\* Lines 147-148: the two thresholds appended in one pass of the loop.
Pair(t0, n) == <<t0 + n, t0 - n>>

\* Lines 146-148: one pass of "for i in range(1, max_iterations + 1)".
AppendPair ==
    /\ pc = "generate"
    /\ i <= max_iterations
    /\ threshold_range' = threshold_range \o Pair(initial_threshold[1], i)
    /\ i' = i + 1
    /\ UNCHANGED <<pc, richness_raster, target_coverage, max_iterations,
                   total_valid_pixels, initial_threshold, position, threshold, attempted,
                   closest_coverage, closest_threshold, threshold_results, log,
                   output_hotspot, save_calls>>
    /\ UNCHANGED <<fn_vars, sr_vars>>

\* Mutant: the best-so-far coverage started at 0.
ZeroCoverage == Rat(0, 1)

\* Line 151: closest_coverage = float('inf')
InitialClosestCoverage == Inf

\* Lines 150-155: the generation loop is over; the search's bookkeeping is set up.
StartSearch ==
    /\ pc = "generate"
    /\ i > max_iterations
    /\ closest_coverage' = InitialClosestCoverage
    /\ closest_threshold' = None
    /\ threshold_results' = <<>>
    /\ position' = 0
    /\ pc' = "search"
    /\ UNCHANGED <<richness_raster, target_coverage, max_iterations,
                   total_valid_pixels, initial_threshold, threshold_range, i, threshold,
                   attempted, log, output_hotspot, save_calls>>
    /\ UNCHANGED <<fn_vars, sr_vars>>

\* Mutant: a candidate as close as the best so far replaces it.
IsCloserOrEqual(current, closest, target) ==
    ~RatLess(AbsDiff(closest, target), AbsDiff(current, target))

\* Line 178: abs(current_coverage - target_coverage) < abs(closest_coverage - target_coverage)
IsCloser(current, closest, target) ==
    RatLess(AbsDiff(current, target), AbsDiff(closest, target))

\* Mutant: the loop left as soon as a coverage lies within acceptable_range.
AdvanceOrBreak(pos, coverage) ==
    IF ~RatLess(acceptable_range, AbsDiff(coverage, target_coverage))
    THEN Len(threshold_range)
    ELSE pos + 1

\* Line 158: the for loop moves on to the next entry of threshold_range,
\* whatever the coverage just found.
Advance(pos, coverage) == pos + 1

\* Lines 158-180: one candidate evaluated without error.  The rasters of the
\* loop body are temporaries of the step; what the step leaves behind is the
\* entry of threshold_results and the best-so-far pair.
EvaluateCandidate ==
    /\ pc = "search"
    /\ position < Len(threshold_range)
    /\ LET t == threshold_range[position + 1]
           reclassified == Reclassify(richness_raster, t, highest_species_richness_value, 1)
           cleaned == Eliminated[reclassified]
           iteration_mask == create_valid_pixel_mask(cleaned)
           current_coverage == calculate_coverage(cleaned, total_valid_pixels, iteration_mask)
       IN  /\ threshold' = Some(t)
           /\ attempted' = Append(attempted, t)
           /\ log' = Append(log, Info("Threshold, Coverage"))
           /\ threshold_results' = Append(threshold_results, <<t, current_coverage, cleaned>>)
           /\ IF IsCloser(current_coverage, closest_coverage, target_coverage)
              THEN /\ closest_coverage' = current_coverage
                   /\ closest_threshold' = Some(t)
              ELSE UNCHANGED <<closest_coverage, closest_threshold>>
           /\ position' = Advance(position, current_coverage)
    /\ UNCHANGED <<pc, richness_raster, target_coverage, max_iterations, total_valid_pixels,
                   initial_threshold, threshold_range, i, output_hotspot, save_calls>>
    /\ UNCHANGED <<fn_vars, sr_vars>>

\* Mutant: the error of one candidate ends the run.
CandidateFailsAndEndsRun ==
    /\ pc = "search"
    /\ position < Len(threshold_range)
    /\ threshold' = Some(threshold_range[position + 1])
    /\ attempted' = Append(attempted, threshold_range[position + 1])
    /\ log' = Append(log, Error("Error encountered"))
    /\ pc' = "aborted"
    /\ UNCHANGED <<richness_raster, target_coverage, max_iterations,
                   total_valid_pixels, initial_threshold, threshold_range, i, position,
                   closest_coverage, closest_threshold, threshold_results,
                   output_hotspot, save_calls>>
    /\ UNCHANGED <<fn_vars, sr_vars>>

\* Lines 158-183: one of the candidate's steps raises; the except clause logs
\* the error and the loop goes on.
CandidateFails ==
    /\ pc = "search"
    /\ position < Len(threshold_range)
    /\ \E step \in CandidateSteps :
          /\ threshold' = Some(threshold_range[position + 1])
          /\ attempted' = Append(attempted, threshold_range[position + 1])
          /\ log' = Append(log, Error("Error encountered"))
    /\ position' = position + 1
    /\ UNCHANGED <<pc, richness_raster, target_coverage, max_iterations, total_valid_pixels,
                   initial_threshold, threshold_range, i, closest_coverage, closest_threshold,
                   threshold_results, output_hotspot, save_calls>>
    /\ UNCHANGED <<fn_vars, sr_vars>>

\* Lines 187-191: the first entry of threshold_results whose threshold is the
\* closest one (the empty list when there is none).
RECURSIVE FirstMatch(_, _)
FirstMatch(results, t) ==
    IF results = <<>> THEN <<>>
    ELSE IF Head(results)[1] = t THEN <<Head(results)>>
    ELSE FirstMatch(Tail(results), t)

\* Lines 186-192 with save_final_raster's save succeeding.
SaveSelected ==
    /\ pc = "search"
    /\ position >= Len(threshold_range)
    /\ closest_threshold # None
    /\ LET match == FirstMatch(threshold_results, closest_threshold[1])
       IN  IF match = <<>>
           THEN /\ log' = Append(log, Info("Threshold selected based on closest coverage"))
                /\ UNCHANGED <<output_hotspot, save_calls>>
           ELSE /\ save_calls' = Append(save_calls, match[1][3])
                /\ output_hotspot' = Some(match[1][3])
                /\ log' = log \o <<Info("Saving hotspot map"),
                                   Info("Threshold selected based on closest coverage")>>
    /\ pc' = "done"
    /\ UNCHANGED <<richness_raster, target_coverage, max_iterations,
                   total_valid_pixels, initial_threshold, threshold_range, i, position,
                   threshold, attempted, closest_coverage, closest_threshold,
                   threshold_results>>
    /\ UNCHANGED <<fn_vars, sr_vars>>

\* Lines 114-121 and 186-192 with cleaned_raster.save raising: save_final_raster
\* catches the exception and logs it, and the workflow goes on to line 192.
SaveFails ==
    /\ pc = "search"
    /\ position >= Len(threshold_range)
    /\ closest_threshold # None
    /\ LET match == FirstMatch(threshold_results, closest_threshold[1])
       IN  /\ match # <<>>
           /\ save_calls' = Append(save_calls, match[1][3])
    /\ log' = log \o <<Info("Saving hotspot map"),
                       Error("Error saving output raster"),
                       Info("Threshold selected based on closest coverage")>>
    /\ pc' = "done"
    /\ UNCHANGED <<richness_raster, target_coverage, max_iterations,
                   total_valid_pixels, initial_threshold, threshold_range, i, position,
                   threshold, attempted, closest_coverage, closest_threshold,
                   threshold_results, output_hotspot>>
    /\ UNCHANGED <<fn_vars, sr_vars>>

\* Lines 193-194: closest_threshold is None.
Unresolved ==
    /\ pc = "search"
    /\ position >= Len(threshold_range)
    /\ closest_threshold = None
    /\ log' = Append(log, Error("Threshold remained unresolved."))
    /\ pc' = "done"
    /\ UNCHANGED <<richness_raster, target_coverage, max_iterations,
                   total_valid_pixels, initial_threshold, threshold_range, i, position,
                   threshold, attempted, closest_coverage, closest_threshold,
                   threshold_results, output_hotspot, save_calls>>
    /\ UNCHANGED <<fn_vars, sr_vars>>

Next ==
    \/ LoadRaster
    \/ LoadFails
    \/ AppendPair
    \/ StartSearch
    \/ EvaluateCandidate
    \/ CandidateFails
    \/ SaveSelected
    \/ SaveFails
    \/ Unresolved

Spec == Init /\ [][Next]_vars

----------------------------------------------------------------------------
(* SpecRaster: Reclassify and eliminate_isolated_pixels applied stage by   *)
(* stage, then applied again to their own output.                          *)

RunIdle ==
    /\ pc = "idle"
    /\ richness_raster = None
    /\ target_coverage = None
    /\ max_iterations = 0
    /\ total_valid_pixels = 0
    /\ initial_threshold = None
    /\ threshold_range = <<>>
    /\ i = 0
    /\ position = 0
    /\ threshold = None
    /\ attempted = <<>>
    /\ closest_coverage = None
    /\ closest_threshold = None
    /\ threshold_results = <<>>
    /\ log = <<>>
    /\ output_hotspot = None
    /\ save_calls = <<>>

InitRaster ==
    /\ RunIdle
    /\ RichnessIdle
    /\ fn_pc = "input"
    /\ fn_pass = 1
    /\ fn_raster \in Rasters
    /\ fn_threshold \in 0..(MaxRichness + 1)
    /\ fn_max_value \in 1..MaxRichness
    /\ reclassified_raster = None
    /\ cleaned_raster = None

\* reclassified_raster = arcpy.sa.Reclassify(raster, "Value",
\*     arcpy.sa.RemapRange([[threshold, highest_species_richness_value, 1]]), "NODATA")
ApplyReclassify ==
    /\ fn_pc = "input"
    /\ reclassified_raster' = Reclassify(fn_raster, fn_threshold, fn_max_value, 1)
    /\ fn_pc' = "reclassified"
    /\ UNCHANGED <<fn_pass, fn_raster, fn_threshold, fn_max_value, cleaned_raster>>
    /\ UNCHANGED <<run_vars, sr_vars>>

\* cleaned_raster = eliminate_isolated_pixels(reclassified_raster)
ApplyEliminate ==
    /\ fn_pc = "reclassified"
    /\ cleaned_raster' = Eliminated[reclassified_raster]
    /\ fn_pc' = "cleaned"
    /\ UNCHANGED <<fn_pass, fn_raster, fn_threshold, fn_max_value, reclassified_raster>>
    /\ UNCHANGED <<run_vars, sr_vars>>

\* The cleaned raster is handed to the same two calls once more, with a remap
\* range that contains the value 1.
ApplyAgain ==
    /\ fn_pc = "cleaned"
    /\ fn_pass = 1
    /\ fn_raster' = cleaned_raster
    /\ \E from \in 0..1, to \in 1..MaxRichness :
          /\ fn_threshold' = from
          /\ fn_max_value' = to
    /\ fn_pass' = 2
    /\ fn_pc' = "input"
    /\ UNCHANGED <<reclassified_raster, cleaned_raster>>
    /\ UNCHANGED <<run_vars, sr_vars>>

NextRaster == ApplyReclassify \/ ApplyEliminate \/ ApplyAgain

SpecRaster == InitRaster /\ [][NextRaster]_vars

----------------------------------------------------------------------------
(* SpecRichness: Code/Compute_species_richness_maps.py.  The species       *)
(* layers are divided into batches, each batch is summed by a task of a    *)
(* process pool and saved in temp_folder, and the .tif files of            *)
(* temp_folder are summed into the final raster.  The script may be        *)
(* started again on other layers with the same temp_folder.                *)

\* batch_size = 150, scaled to the model's number of layers.
batch_size == 2

\* num_processors = 5, scaled to the model's number of batches.
num_processors == 2

\* A binary species layer: presence (1) or absence (0) in each pixel, or no
\* data; the model draws layers that are uniform over the extent.
SpeciesLayers == {[c \in Cells |-> v] : v \in {NoData, 0, 1}}

\* The folders input_folder can be: lists of layers, the file name of a layer
\* being its position in the folder's listing.
InputFolders == UNION {[1..n -> SpeciesLayers] : n \in 0..MaxSpecies}

RECURSIVE SumData(_, _)
\* The sum at cell c of the rasters that have data there.
SumData(rasters, c) ==
    IF rasters = {} THEN 0
    ELSE LET r == CHOOSE x \in rasters : TRUE
         IN  (IF r[2][c] = NoData THEN 0 ELSE r[2][c]) + SumData(rasters \ {r}, c)

\* arcpy.sa.CellStatistics(rasters, "SUM", "DATA"): at each cell the sum of the
\* rasters that have data there, NoData where none has.  rasters is a list.
CellStatistics(rasters) ==
    LET indexed == {<<j, rasters[j]>> : j \in 1..Len(rasters)}
    IN  [c \in Cells |->
            IF \A j \in 1..Len(rasters) : rasters[j][c] = NoData THEN NoData
            ELSE SumData(indexed, c)]

\* range(start, stop, step) as a list.
Range(start, stop, step) ==
    [k \in 1..((stop - start + step - 1) \div step) |-> start + (k - 1) * step]

\* The slice list[from:to] of a list (indices from 0, the end clipped).
Slice(list, from, to) ==
    SubSeq(list, from + 1, IF to < Len(list) THEN to ELSE Len(list))

\* f"species_richness_batch_{batch_index}.tif"
BatchFile(batch_index) == <<"species_richness_batch_", batch_index, ".tif">>

\* f"batch_{batch_index}_species.txt"
SpeciesFile(batch_index) == <<"batch_", batch_index, "_species.txt">>

\* filename.endswith(".tif")
EndsWithTif(filename) == filename[Len(filename)] = ".tif"

\* A file written into a folder: a new file, or the new content of an old one.
WriteFile(folder, filename, content) ==
    [f \in DOMAIN folder \cup {filename} |->
        IF f = filename THEN content ELSE folder[f]]

\* The list of the contents of a set of files of a folder, in some order.
RECURSIVE Contents(_, _)
Contents(folder, files) ==
    IF files = {} THEN <<>>
    ELSE LET f == CHOOSE x \in files : TRUE
         IN  <<folder[f]>> \o Contents(folder, files \ {f})

InitRichness ==
    /\ RunIdle
    /\ FnIdle
    /\ sr_pc = "main"
    /\ runs = 1
    /\ input_folder \in InputFolders
    /\ species_tifs = <<>>
    /\ batches = <<>>
    /\ task = <<>>
    /\ temp_folder = <<>>
    /\ written = {}
    /\ temp_output_files = {}
    /\ final_species_richness = None

\* Lines 108-113: list the layers and divide the list into batches; line 119
\* hands one task per batch to the pool.
DivideIntoBatches ==
    /\ sr_pc = "main"
    /\ LET tifs == [j \in 1..Len(input_folder) |-> j]
           new_batches == [k \in 1..Len(Range(0, Len(tifs), batch_size)) |->
                             LET start == Range(0, Len(tifs), batch_size)[k]
                             IN  Slice(tifs, start, start + batch_size)]
       IN  /\ species_tifs' = tifs
           /\ batches' = new_batches
           /\ task' = [k \in 1..Len(new_batches) |-> "queued"]
    /\ sr_pc' = "pool"
    /\ UNCHANGED <<runs, input_folder, temp_folder, written, temp_output_files,
                   final_species_richness>>
    /\ UNCHANGED <<run_vars, fn_vars>>

\* The tasks a worker process is busy with.
Active == {k \in DOMAIN task : task[k] \in {"running", "saved"}}

\* A free worker process takes the next task of the pool's queue.
StartBatch ==
    /\ sr_pc = "pool"
    /\ Cardinality(Active) < num_processors
    /\ \E k \in DOMAIN task :
          /\ task[k] = "queued"
          /\ \A j \in 1..(k - 1) : task[j] # "queued"
          /\ task' = [task EXCEPT ![k] = "running"]
    /\ UNCHANGED <<sr_pc, runs, input_folder, species_tifs, batches, temp_folder,
                   written, temp_output_files, final_species_richness>>
    /\ UNCHANGED <<run_vars, fn_vars>>

\* Lines 51-62 of calculate_species_richness: sum the layers of the batch and
\* save the sum as species_richness_batch_{batch_index}.tif (enumerate counts
\* the batches from 0).
SaveBatch ==
    /\ sr_pc = "pool"
    /\ \E k \in DOMAIN task :
          /\ task[k] = "running"
          /\ LET species_layers == [j \in 1..Len(batches[k]) |-> input_folder[batches[k][j]]]
                 species_richness_batch == CellStatistics(species_layers)
             IN  /\ temp_folder' = WriteFile(temp_folder, BatchFile(k - 1),
                                             species_richness_batch)
                 /\ written' = written \cup {BatchFile(k - 1)}
          /\ task' = [task EXCEPT ![k] = "saved"]
    /\ UNCHANGED <<sr_pc, runs, input_folder, species_tifs, batches,
                   temp_output_files, final_species_richness>>
    /\ UNCHANGED <<run_vars, fn_vars>>

\* Lines 65-69: write the names of the batch's layers to
\* batch_{batch_index}_species.txt; the task returns.
WriteSpeciesFile ==
    /\ sr_pc = "pool"
    /\ \E k \in DOMAIN task :
          /\ task[k] = "saved"
          /\ temp_folder' = WriteFile(temp_folder, SpeciesFile(k - 1), batches[k])
          /\ task' = [task EXCEPT ![k] = "done"]
    /\ UNCHANGED <<sr_pc, runs, input_folder, species_tifs, batches, written,
                   temp_output_files, final_species_richness>>
    /\ UNCHANGED <<run_vars, fn_vars>>

\* A call of calculate_species_richness raises (arcpy or file error): the task
\* ends with the exception, the other tasks go on.
BatchFails ==
    /\ sr_pc = "pool"
    /\ \E k \in DOMAIN task :
          /\ task[k] \in {"running", "saved"}
          /\ task' = [task EXCEPT ![k] = "failed"]
    /\ UNCHANGED <<sr_pc, runs, input_folder, species_tifs, batches, temp_folder,
                   written, temp_output_files, final_species_richness>>
    /\ UNCHANGED <<run_vars, fn_vars>>

\* Line 119: pool.starmap returns once every task has returned.
PoolReturns ==
    /\ sr_pc = "pool"
    /\ \A k \in DOMAIN task : task[k] = "done"
    /\ sr_pc' = "reduce"
    /\ UNCHANGED <<runs, input_folder, species_tifs, batches, task, temp_folder,
                   written, temp_output_files, final_species_richness>>
    /\ UNCHANGED <<run_vars, fn_vars>>

\* Line 119: pool.starmap raises a task's exception once every task has ended;
\* nothing catches it and the script ends.
PoolRaises ==
    /\ sr_pc = "pool"
    /\ \A k \in DOMAIN task : task[k] \in {"done", "failed"}
    /\ \E k \in DOMAIN task : task[k] = "failed"
    /\ sr_pc' = "aborted"
    /\ UNCHANGED <<runs, input_folder, species_tifs, batches, task, temp_folder,
                   written, temp_output_files, final_species_richness>>
    /\ UNCHANGED <<run_vars, fn_vars>>

\* Lines 122-130: list the .tif files of temp_folder, sum them and save the
\* sum.  The order of the listing is the file system's; SUM does not depend
\* on it.
FinalStatistics ==
    /\ sr_pc = "reduce"
    /\ LET files == {f \in DOMAIN temp_folder : EndsWithTif(f)}
       IN  /\ files # {}
           /\ temp_output_files' = files
           /\ final_species_richness' =
                 Some(CellStatistics(Contents(temp_folder, files)))
    /\ sr_pc' = "done"
    /\ UNCHANGED <<runs, input_folder, species_tifs, batches, task, temp_folder, written>>
    /\ UNCHANGED <<run_vars, fn_vars>>

\* Lines 126-130: CellStatistics or save raises (always so on an empty list of
\* rasters); the script ends without a final raster.
FinalFails ==
    /\ sr_pc = "reduce"
    /\ temp_output_files' = {f \in DOMAIN temp_folder : EndsWithTif(f)}
    /\ sr_pc' = "aborted"
    /\ UNCHANGED <<runs, input_folder, species_tifs, batches, task, temp_folder,
                   written, final_species_richness>>
    /\ UNCHANGED <<run_vars, fn_vars>>

\* The script is started again on another input_folder (lines 12-28: one run
\* per species group, only the folder paths and the output name differ).
\* Nothing in the script empties temp_folder.
RunAgain ==
    /\ sr_pc \in {"done", "aborted"}
    /\ runs < MaxRuns
    /\ runs' = runs + 1
    /\ input_folder' \in InputFolders
    /\ species_tifs' = <<>>
    /\ batches' = <<>>
    /\ task' = <<>>
    /\ written' = {}
    /\ temp_output_files' = {}
    /\ final_species_richness' = None
    /\ sr_pc' = "main"
    /\ UNCHANGED temp_folder
    /\ UNCHANGED <<run_vars, fn_vars>>

NextRichness ==
    \/ DivideIntoBatches
    \/ StartBatch
    \/ SaveBatch
    \/ WriteSpeciesFile
    \/ BatchFails
    \/ PoolReturns
    \/ PoolRaises
    \/ FinalStatistics
    \/ FinalFails
    \/ RunAgain

SpecRichness == InitRichness /\ [][NextRichness]_vars

----------------------------------------------------------------------------
(* Properties of the richness summation (SpecRichness).                    *)

RECURSIVE Concat(_)
\* The lists of a list of lists, one after the other.
Concat(lists) ==
    IF lists = <<>> THEN <<>> ELSE Head(lists) \o Concat(Tail(lists))

\* The batches partition the list of layers: in order, none empty, each layer
\* in exactly one batch.
BatchesPartition ==
    /\ Concat(batches) = species_tifs
    /\ \A k \in DOMAIN batches : batches[k] # <<>>
    /\ \A j \in DOMAIN species_tifs :
          Cardinality({<<k, n>> \in (DOMAIN batches) \X (1..batch_size) :
                          n <= Len(batches[k]) /\ batches[k][n] = species_tifs[j]}) = 1

\* Each batch saves its sum in a file of its own.
BatchFilesDistinct ==
    /\ \A k, l \in DOMAIN batches : BatchFile(k - 1) = BatchFile(l - 1) => k = l
    /\ written \subseteq {BatchFile(k - 1) : k \in DOMAIN batches}

\* The final raster is the sum of the files this run's batches saved, which is
\* the sum of the layers of input_folder, each counted once.
FinalSumsThisRun ==
    sr_pc = "done" =>
        /\ temp_output_files = {BatchFile(k - 1) : k \in DOMAIN batches}
        /\ temp_output_files = written
        /\ final_species_richness = Some(CellStatistics(input_folder))

\* C11: for every list of layers and every interleaving of the pool's tasks,
\* the batches partition the list, each batch writes a file no other batch
\* writes, and the final reduction sums exactly the files of this run's
\* batches, so that every layer contributes exactly once to the final raster.
C11_EveryLayerSummedOnce ==
    (sr_pc \notin {"idle", "main"}) =>
        BatchesPartition /\ BatchFilesDistinct /\ FinalSumsThisRun

\* The same on the first start of the script, temp_folder being empty then.
FirstRunSumsEveryLayerOnce ==
    (runs = 1 /\ sr_pc \notin {"idle", "main"}) =>
        BatchesPartition /\ BatchFilesDistinct /\ FinalSumsThisRun

\* A first run that ended with three batches summed by interleaved tasks.
FirstRunWitness ==
    /\ runs = 1
    /\ sr_pc = "done"
    /\ Len(batches) = 3
    /\ Len(batches[3]) = 1

----------------------------------------------------------------------------
(* Properties of the raster functions (SpecRaster).                        *)

\* Two cells share an edge or a corner.
Touching(c, d) == c # d /\ Abs(c[1] - d[1]) <= 1 /\ Abs(c[2] - d[2]) <= 1

\* The 8-connected component of c among the cells `ones`: the least set that
\* holds c and, with a cell, every touching cell of `ones`.
Component(ones, c) ==
    LET closed == {S \in SUBSET ones :
                     /\ c \in S
                     /\ \A x \in S : \A y \in ones : Touching(x, y) => y \in S}
    IN  {x \in ones : \A S \in closed : x \in S}

Ones(raster) == {c \in Cells : raster[c] = 1}

\* C8: the contiguity filter keeps a 1-valued cell as 1 if and only if its
\* 8-connected component has at least MinComponentSize cells (a component of
\* exactly that size is kept); every other cell is NoData, so NoData stays
\* NoData and no cell is added.
C8_FilterKeepsLargeComponents ==
    fn_pc = "cleaned" =>
        /\ DOMAIN cleaned_raster = Cells
        /\ \A c \in Cells :
              /\ cleaned_raster[c] \in {1, NoData}
              /\ cleaned_raster[c] = 1 <=>
                    /\ reclassified_raster[c] = 1
                    /\ Cardinality(Component(Ones(reclassified_raster), c)) >= MinComponentSize

\* A component of exactly MinComponentSize cells is kept while a smaller one,
\* touching it nowhere, is removed.
C8_Witness ==
    /\ fn_pc = "cleaned"
    /\ fn_pass = 1
    /\ \E c \in Ones(cleaned_raster) :
          Cardinality(Component(Ones(reclassified_raster), c)) = MinComponentSize
    /\ \E c \in Ones(reclassified_raster) :
          /\ cleaned_raster[c] = NoData
          /\ Cardinality(Component(Ones(reclassified_raster), c)) < MinComponentSize

\* C9: reclassification yields a raster of the same shape in which a cell is 1
\* if and only if the source cell is valid and threshold <= value <= max_value,
\* and every other cell is NoData.
C9_ReclassifyInclusiveRange ==
    fn_pc \in {"reclassified", "cleaned"} =>
        /\ DOMAIN reclassified_raster = Cells
        /\ \A c \in Cells :
              /\ reclassified_raster[c] \in {1, NoData}
              /\ reclassified_raster[c] = 1 <=>
                    /\ fn_raster[c] # NoData
                    /\ fn_threshold <= fn_raster[c]
                    /\ fn_raster[c] <= fn_max_value

\* One raster with a NoData cell, a value below the threshold, a value above
\* max_value and values on both ends of the range.
C9_Witness ==
    /\ fn_pc = "reclassified"
    /\ fn_pass = 1
    /\ fn_threshold < fn_max_value
    /\ \E c \in Cells : fn_raster[c] = NoData /\ reclassified_raster[c] = NoData
    /\ \E c \in Cells : fn_raster[c] = fn_threshold /\ reclassified_raster[c] = 1
    /\ \E c \in Cells : fn_raster[c] = fn_max_value /\ reclassified_raster[c] = 1

\* A valid value below the threshold and one above max_value both become NoData.
C9_WitnessOutside ==
    /\ fn_pc = "reclassified"
    /\ fn_pass = 1
    /\ \E c \in Cells :
          /\ fn_raster[c] # NoData
          /\ fn_raster[c] > fn_max_value
          /\ reclassified_raster[c] = NoData
    /\ \E c \in Cells :
          /\ fn_raster[c] # NoData
          /\ fn_raster[c] < fn_threshold
          /\ reclassified_raster[c] = NoData

\* C10: reclassifying the output of reclassify-then-filter with a range that
\* contains 1 and filtering it again returns the identical raster.
C10_FilterIdempotent ==
    (fn_pc = "cleaned" /\ fn_pass = 2) => cleaned_raster = fn_raster

\* The second application ran on a raster that kept a region.
C10_Witness ==
    /\ fn_pc = "cleaned"
    /\ fn_pass = 2
    /\ Ones(fn_raster) # {}
    /\ Ones(fn_raster) # Cells
    /\ cleaned_raster = fn_raster

----------------------------------------------------------------------------
(* Properties of one run (Spec).                                           *)

\* The candidate at place j of the sequence: the initial threshold first, then
\* for n = 1, 2, ... the threshold n above it followed by the one n below it.
ExpectedCandidate(t0, j) ==
    IF j = 1 THEN t0
    ELSE IF j % 2 = 0 THEN t0 + (j \div 2)
    ELSE t0 - (j \div 2)

\* C1: the candidate sequence is initial_threshold, then for i = 1..max_iterations
\* the pair initial_threshold + i, initial_threshold - i; it has
\* 2*max_iterations + 1 entries, all distinct.
C1_CandidateSequence ==
    /\ pc = "generate" =>
          /\ Len(threshold_range) = 2 * (i - 1) + 1
          /\ \A j \in 1..Len(threshold_range) :
                threshold_range[j] = ExpectedCandidate(initial_threshold[1], j)
    /\ pc \in {"search", "done"} =>
          /\ Len(threshold_range) = 2 * max_iterations + 1
          /\ \A j \in 1..(2 * max_iterations + 1) :
                threshold_range[j] = ExpectedCandidate(initial_threshold[1], j)
          /\ \A j, k \in 1..Len(threshold_range) :
                j # k => threshold_range[j] # threshold_range[k]

\* The sequence of the example, two steps either side of the seed.
C1_Witness ==
    /\ pc = "search"
    /\ max_iterations = 2
    /\ \E t0 \in 1..highest_species_richness_value :
          threshold_range = <<t0, t0 + 1, t0 - 1, t0 + 2, t0 - 2>>

\* Distance of the j-th recorded candidate's coverage from the target.
Distance(j) == AbsDiff(threshold_results[j][2], target_coverage)

SearchFinished == pc = "done" \/ (pc = "search" /\ position >= Len(threshold_range))

\* C2: once the loop has finished with at least one candidate evaluated, the
\* selected threshold is that of a recorded candidate at minimal distance from
\* the target, the earliest one among those at that distance, and the raster
\* handed to the save step is that candidate's cleaned raster.
C2_ClosestEarliestSelected ==
    (SearchFinished /\ threshold_results # <<>>) =>
        \E j \in 1..Len(threshold_results) :
            /\ closest_threshold = Some(threshold_results[j][1])
            /\ closest_coverage = threshold_results[j][2]
            /\ \A k \in 1..Len(threshold_results) : ~RatLess(Distance(k), Distance(j))
            /\ \A k \in 1..(j - 1) : RatLess(Distance(j), Distance(k))
            /\ pc = "done" => save_calls = <<threshold_results[j][3]>>

\* The selected candidate is not the first one recorded, and a later candidate
\* ties with it.
C2_Witness ==
    /\ pc = "done"
    /\ \E j \in 2..Len(threshold_results) :
          /\ closest_threshold = Some(threshold_results[j][1])
          /\ save_calls = <<threshold_results[j][3]>>
          /\ \E k \in (j + 1)..Len(threshold_results) :
                /\ ~RatLess(Distance(j), Distance(k))
                /\ ~RatLess(Distance(k), Distance(j))

CountOf(seq, e) == Cardinality({j \in 1..Len(seq) : seq[j] = e})

\* The run's last log record says which way it ended.
EndedResolved ==
    /\ pc = "done"
    /\ log[Len(log)] = Info("Threshold selected based on closest coverage")

EndedUnresolved ==
    /\ pc = "done"
    /\ log[Len(log)] = Error("Threshold remained unresolved.")

\* C3: a search run ends Resolved if and only if at least one candidate was
\* evaluated without error, Unresolved if and only if every candidate raised;
\* an Unresolved run never calls the save step and writes no output.
C3_ResolvedIffSomeCandidate ==
    pc = "done" =>
        /\ EndedResolved <=> CountOf(log, Info("Threshold, Coverage")) >= 1
        /\ EndedUnresolved <=>
              CountOf(log, Error("Error encountered")) = Len(threshold_range)
        /\ EndedResolved # EndedUnresolved
        /\ EndedResolved => closest_threshold # None
        /\ EndedUnresolved => (save_calls = <<>> /\ output_hotspot = None)

\* Five candidates, every one of them raised.
C3_Witness ==
    /\ EndedUnresolved
    /\ Len(threshold_range) = 5
    /\ CountOf(log, Error("Error encountered")) = 5
    /\ output_hotspot = None

\* C4: when a candidate's evaluation raises, nothing is appended to the result
\* list, the best-so-far pair is unchanged, the run is not ended, and the loop
\* moves on to the next threshold.
C4_FailedCandidateSkipped ==
    [][ log' = Append(log, Error("Error encountered")) =>
            /\ threshold_results' = threshold_results
            /\ closest_coverage' = closest_coverage
            /\ closest_threshold' = closest_threshold
            /\ output_hotspot' = output_hotspot
            /\ pc' = "search"
            /\ position' = position + 1
            /\ attempted' = Append(attempted, threshold_range[position + 1]) ]_vars

\* A candidate raised after one had been recorded, and a later one was recorded.
C4_Witness ==
    /\ pc = "search"
    /\ \E j \in 2..(Len(log) - 1) :
          /\ log[j] = Error("Error encountered")
          /\ log[j - 1] = Info("Threshold, Coverage")
          /\ log[j + 1] = Info("Threshold, Coverage")
    /\ Len(threshold_results) >= 2

ZeroPercent == Rat(0, 1)

\* C5: every recorded coverage is count(cleaned raster = 1) / total_valid_pixels
\* * 100 with total_valid_pixels the valid-cell count of the original richness
\* raster, the same for the whole run; calculate_coverage returns 0 when
\* total_valid_pixels <= 0.
C5_CoverageOverOriginalValidCells ==
    pc \in {"generate", "search", "done"} =>
        /\ total_valid_pixels = Cardinality(ValidCells(richness_raster))
        /\ \A j \in 1..Len(threshold_results) :
              LET cleaned == threshold_results[j][3]
                  coverage == threshold_results[j][2]
              IN  /\ coverage.den = total_valid_pixels
                  /\ coverage.num = Cardinality(Ones(cleaned)) * 100
                  /\ \A total \in {-1, 0} :
                        calculate_coverage(cleaned, total, create_valid_pixel_mask(cleaned))
                            = ZeroPercent

\* A recorded candidate whose cleaned raster holds fewer cells than the
\* original raster has valid cells, in a raster that has NoData cells.
C5_Witness ==
    /\ pc = "done"
    /\ total_valid_pixels < Cardinality(Cells)
    /\ \E j \in 1..Len(threshold_results) :
          /\ Ones(threshold_results[j][3]) # {}
          /\ Cardinality(Ones(threshold_results[j][3])) < total_valid_pixels
          /\ threshold_results[j][2] = Rat(Cardinality(Ones(threshold_results[j][3])) * 100,
                                          total_valid_pixels)

\* C6: a failure to write the output raster reaches the caller, so a run that
\* reports a selected threshold has saved its output raster.
C6_SelectedImpliesSaved ==
    EndedResolved => output_hotspot # None

\* Steps left before the run ends.
Rank ==
    CASE pc = "load"     -> 3 * max_iterations + 5
      [] pc = "generate" -> (max_iterations + 1 - i) + 2 * max_iterations + 4
      [] pc = "search"   -> (Len(threshold_range) - position) + 1
      [] OTHER           -> 0

\* A run that has not ended can take a step.
CanStep ==
    /\ pc = "load" => ENABLED (LoadRaster \/ LoadFails)
    /\ pc = "generate" => ENABLED (AppendPair \/ StartSearch)
    /\ (pc = "search" /\ position < Len(threshold_range)) => ENABLED CandidateFails
    /\ (pc = "search" /\ position >= Len(threshold_range)) =>
          ENABLED (SaveSelected \/ SaveFails \/ Unresolved)

\* C7: every search run attempts each of the 2*max_iterations + 1 candidates
\* exactly once, in generation order, before it ends; it does not stop early,
\* and it always ends (every step lowers Rank, which is never negative, and a
\* run that has not ended can take a step).
C7_AllCandidatesAttempted ==
    /\ [](pc = "done" =>
            /\ attempted = threshold_range
            /\ Len(attempted) = 2 * max_iterations + 1)
    /\ [](pc = "search" =>
            /\ position = Len(attempted)
            /\ attempted = SubSeq(threshold_range, 1, position))
    /\ [](pc \in {"load", "generate", "search", "done", "aborted"} /\ CanStep /\ Rank >= 0)
    /\ [][Rank' < Rank]_vars

\* The first candidate's coverage already lay within acceptable_range of the
\* target, and the four other candidates were attempted all the same.
C7_Witness ==
    /\ pc = "done"
    /\ Len(attempted) = 5
    /\ threshold_results # <<>>
    /\ threshold_results[1][1] = threshold_range[1]
    /\ ~RatLess(acceptable_range, Distance(1))

\* The cells a candidate's cleaned raster kept as 1 were cells of the remap
\* range of its threshold.
RangeCells(t) ==
    {c \in Cells : richness_raster[c] # NoData /\ t <= richness_raster[c]
                    /\ richness_raster[c] <= highest_species_richness_value}

\* C12: for one richness raster, one highest value and one minimum region
\* size, of any two candidates the search recorded, the one with the higher (or
\* equal) threshold keeps a subset of the cells the other keeps, and its
\* coverage is not larger: coverage is non-increasing in the threshold.
C12_CoverageNonIncreasing ==
    \A j, k \in DOMAIN threshold_results :
        threshold_results[j][1] <= threshold_results[k][1] =>
            /\ Ones(threshold_results[k][3]) \subseteq Ones(threshold_results[j][3])
            /\ ~RatLess(threshold_results[j][2], threshold_results[k][2])

\* Two recorded candidates: the higher threshold keeps some cells, fewer than
\* the lower one, has the smaller coverage, and the filter removed cells of its
\* remap range.
C12_Witness ==
    \E j, k \in DOMAIN threshold_results :
        /\ threshold_results[j][1] < threshold_results[k][1]
        /\ Ones(threshold_results[k][3]) # {}
        /\ Ones(threshold_results[k][3]) # Ones(threshold_results[j][3])
        /\ Ones(threshold_results[k][3]) # RangeCells(threshold_results[k][1])
        /\ RatLess(threshold_results[k][2], threshold_results[j][2])

====
